---- MODULE Spec2Model ----
(***************************************************************************)
(* A model of the lightly-train example material:                          *)
(*   - the Test Documentation workflow                                     *)
(*     (.github/workflows/test_documentation.yml),                         *)
(*   - the three notebooks (quick_start, yolov12, rfdetr) as sequences of  *)
(*     blocking steps over a file system,                                  *)
(*   - the quick-start fine-tuning cell, statement by statement.           *)
(* Each part has its own specification (SpecCI, SpecNB, SpecFT); the       *)
(* variables of the other parts stay at their initial value.               *)
(***************************************************************************)
EXTENDS Naturals, Sequences, FiniteSets

VARIABLES
    \* ---- Test Documentation workflow ----
    changed,       \* the change set of the event: a set of paths
    detect,        \* job detect-code-changes: waiting/running/success/failure
    detectSteps,   \* the steps of detect-code-changes that have run
    runTestsOut,   \* its output run-tests: "true", "false" or "" (missing)
    testdoc,       \* job test-documentation: waiting/skipped/running/success/failure
    testdocSteps,  \* the steps of test-documentation that have run
    \* ---- notebooks ----
    nb,            \* the notebook being executed
    remote,        \* the images of the dataset offered for download
    exec,          \* the number of the current execution (kernel restarts)
    status,        \* each step's status in this execution
    invoked,       \* how often each step was invoked in this execution
    surfaced,      \* the error the execution ended with ("" for none)
    dataset,       \* the files under the dataset directory
    fs,            \* the files under out/: records [path, run]
    runId,         \* the number of training invocations so far
    completed,     \* the number of training invocations that returned
    emb,           \* the embeddings artifact my_embeddings.pth, or NoArtifact
    \* ---- quick-start fine-tuning cell ----
    ftN,           \* len(dataset): the number of labelled images
    ftClasses,     \* len(dataset.classes)
    ftpc,          \* the statement about to run ("done", "raised" at the end)
    ftError,       \* the exception the cell ended with ("" for none)
    batches,       \* len(dataloader)
    backbone,      \* the backbone's weights: "none", "init", "pretrained"
    fc,            \* model.fc: [id, out, weights]; id 0 before the model exists
    optFc,         \* the id of the fc parameters the optimizer holds (0: none)
    epoch,         \* the current epoch, 1..num_epochs (0 before the loop)
    batch,         \* the current batch of the epoch (0 before the first)
    lossEpoch,     \* the epoch whose batch last assigned loss (0: unassigned)
    grads,         \* how many batches' gradients the .grad fields hold
    optSteps,      \* optimizer.step() calls so far
    lastStep       \* the last optimizer step: [grads, fcUpdated]

ciVars == <<changed, detect, detectSteps, runTestsOut, testdoc, testdocSteps>>
nbVars == <<nb, remote, exec, status, invoked, surfaced, dataset, fs, runId,
           completed, emb>>

ftVars == <<ftN, ftClasses, ftpc, ftError, batches, backbone, fc, optFc, epoch,
            batch, lossEpoch, grads, optSteps, lastStep>>

vars == <<ciVars, nbVars, ftVars>>

(***************************************************************************)
(* Test Documentation workflow                                             *)
(***************************************************************************)

\* The workflow file itself, as a path (a sequence of segments).
WorkflowFile == <<".github", "workflows", "test_documentation.yml">>

\* The paths change sets are drawn from: under docker/, under .github/
\* (the workflow file and others), and elsewhere.
Paths ==
    { <<"docker", "Dockerfile">>,
      <<"docker", "scripts", "run.sh">>,
      WorkflowFile,
      <<".github", "workflows", "test_unit.yml">>,
      <<".github", "CODEOWNERS">>,
      <<"docs", "source", "index.md">>,
      <<"README.md">> }

\* filters: run-tests: the three patterns, in order. A leading '!' negates.
RunTestsPatterns ==
    << [neg |-> TRUE,  glob |-> <<"docker", "**">>],
       [neg |-> TRUE,  glob |-> <<".github", "**">>],
       [neg |-> FALSE, glob |-> WorkflowFile] >>

\* Glob matching on path segments: '**' stands for any number of segments,
\* '*' for one segment, anything else for itself (dot files included).
RECURSIVE GlobMatch(_, _)
GlobMatch(glob, path) ==
    IF glob = <<>> THEN path = <<>>
    ELSE IF Head(glob) = "**"
         THEN \/ GlobMatch(Tail(glob), path)
              \/ path # <<>> /\ GlobMatch(glob, Tail(path))
    ELSE /\ path # <<>>
         /\ (Head(glob) = "*" \/ Head(glob) = Head(path))
         /\ GlobMatch(Tail(glob), Tail(path))

\* One pattern is one matcher: a negated pattern matches every path its
\* glob does not match.
PatternMatches(p, path) ==
    IF p.neg THEN ~GlobMatch(p.glob, path) ELSE GlobMatch(p.glob, path)

\* paths-filter's default predicate-quantifier is 'some' (the workflow sets
\* none): a file belongs to the filter when at least one pattern matches it.
FileMatches(patterns, path) ==
    \E i \in DOMAIN patterns : PatternMatches(patterns[i], path)

\* The filter's output: 'true' when some changed file belongs to it.
RunTestsFilter(files) ==
    IF \E f \in files : FileMatches(RunTestsPatterns, f) THEN "true" ELSE "false"

\* The steps of the two jobs, in order.
DetectStepNames == <<"checkout", "filter">>
TestDocStepNames ==
    <<"checkout", "setup-uv", "setup-python", "install-docs", "build">>

\* needs: detect-code-changes -- the job is considered only once the needed
\* job has finished.
TestDocNeedsMet == detect \in {"success", "failure"}

\* if: needs.detect-code-changes.outputs.run-tests == 'true'
\* The expression calls no status function, so success() is implied: a
\* failed needed job skips the job.
TestDocIfAlways == TRUE

TestDocIf == detect = "success" /\ runTestsOut = "true"

CIInit ==
    /\ changed \in SUBSET Paths
    /\ detect = "waiting"
    /\ detectSteps = <<>>
    /\ runTestsOut = ""
    /\ testdoc = "waiting"
    /\ testdocSteps = <<>>

CIIdle ==
    /\ changed = {}
    /\ detect = "waiting"
    /\ detectSteps = <<>>
    /\ runTestsOut = ""
    /\ testdoc = "waiting"
    /\ testdocSteps = <<>>

\* detect-code-changes has no needs: a runner picks it up.
DetectStart ==
    /\ detect = "waiting"
    /\ detect' = "running"
    /\ UNCHANGED <<changed, detectSteps, runTestsOut, testdoc, testdocSteps>>
    /\ UNCHANGED <<nbVars, ftVars>>

\* actions/checkout@v4 succeeds or fails; a failure fails the job.
DetectCheckout ==
    /\ detect = "running"
    /\ detectSteps = <<>>
    /\ detectSteps' = <<"checkout">>
    /\ \/ detect' = detect
       \/ detect' = "failure"
    /\ UNCHANGED <<changed, runTestsOut, testdoc, testdocSteps>>
    /\ UNCHANGED <<nbVars, ftVars>>

\* dorny/paths-filter@v3 publishes run-tests and ends the job, or fails and
\* publishes nothing.
DetectFilter ==
    /\ detect = "running"
    /\ detectSteps = <<"checkout">>
    /\ detectSteps' = DetectStepNames
    /\ \/ /\ runTestsOut' = RunTestsFilter(changed)
          /\ detect' = "success"
       \/ /\ runTestsOut' = runTestsOut
          /\ detect' = "failure"
    /\ UNCHANGED <<changed, testdoc, testdocSteps>>
    /\ UNCHANGED <<nbVars, ftVars>>

\* The job's needs and if are evaluated: it starts or is skipped.
TestDocDecide ==
    /\ testdoc = "waiting"
    /\ TestDocNeedsMet
    /\ testdoc' = IF TestDocIf THEN "running" ELSE "skipped"
    /\ UNCHANGED <<changed, detect, detectSteps, runTestsOut, testdocSteps>>
    /\ UNCHANGED <<nbVars, ftVars>>

\* The next step of test-documentation runs; a failing step fails the job
\* and the last step's success ends it.
TestDocStep ==
    /\ testdoc = "running"
    /\ Len(testdocSteps) < Len(TestDocStepNames)
    /\ testdocSteps' = Append(testdocSteps, TestDocStepNames[Len(testdocSteps) + 1])
    /\ \/ testdoc' = IF Len(testdocSteps') = Len(TestDocStepNames)
                     THEN "success" ELSE "running"
       \/ testdoc' = "failure"
    /\ UNCHANGED <<changed, detect, detectSteps, runTestsOut>>
    /\ UNCHANGED <<nbVars, ftVars>>

CINext ==
    \/ DetectStart
    \/ DetectCheckout
    \/ DetectFilter
    \/ TestDocDecide
    \/ TestDocStep

(***************************************************************************)
(* The notebooks: dataset acquisition, pretraining, fine-tuning, embedding *)
(***************************************************************************)

\* Bounds of the model.
MaxImages == 2
MaxExec == 3

Notebooks == {"quick_start", "yolov12", "rfdetr"}

\* The code cells of each notebook that make up its workflow, top to bottom.
StepsOf(n) ==
    IF n = "quick_start"
    THEN <<"acquire", "pretrain", "finetune", "embed", "load_embeddings">>
    ELSE <<"acquire", "pretrain", "finetune">>

StepNames == {"acquire", "pretrain", "finetune", "embed", "load_embeddings"}

Image(i) == [kind |-> "image", id |-> i]
GitDir == [kind |-> ".git", id |-> 0]
Images(files) == {f \in files : f.kind = "image"}

\* What comes with the images: labels/ (coco8), a COCO annotation file
\* (Roboflow), nothing (the clothing images).
Extras(n) ==
    IF n = "yolov12" THEN {[kind |-> "labels", id |-> 0]}
    ELSE IF n = "rfdetr" THEN {[kind |-> "annotations", id |-> 0]}
    ELSE {}

\* !git clone https://github.com/lightly-ai/dataset_clothing_images.git my_data_dir
\* git refuses a destination that exists and is not empty.
GitClone(dir, images, ok) ==
    IF ok /\ dir = {} THEN images \cup {GitDir} ELSE dir

\* !rm -rf my_data_dir/.git
RmGit(dir) == dir \ {GitDir}

\* check_det_dataset("coco8.yaml") / version.download("coco"): the dataset
\* is downloaded when it is not there yet.
Download(dir, images, extras) ==
    IF dir = {} THEN images \cup extras ELSE dir

\* out= of the training call.
TrainOut(n) == <<"out", "my_experiment">>

\* overwrite=True is passed by the YOLOv12 and RF-DETR notebooks only.
TrainOverwrite(n) == n \in {"yolov12", "rfdetr"}

\* The documented layout of the output directory: the last checkpoint, an
\* intermediate checkpoint and the exported model. `taken` are the paths
\* that already exist.
LastCheckpointVersioned(out, taken) ==
    IF (out \o <<"checkpoints", "last.ckpt">>) \in taken
    THEN out \o <<"checkpoints", "last-v1.ckpt">>
    ELSE out \o <<"checkpoints", "last.ckpt">>

LastCheckpoint(out, taken) == out \o <<"checkpoints", "last.ckpt">>

EpochCheckpoint(out) == out \o <<"checkpoints", "epoch=99-step=123.ckpt">>

ExportedLast(out) == out \o <<"exported_models", "exported_last.pt">>

\* The weights the fine-tuning cell loads, the checkpoint the embedding cell
\* reads and the file the embedding cell writes and the last cell loads.
FinetuneWeightsNoSubdir(n) == <<"out", "my_experiment", "exported_last.pt">>

FinetuneWeights(n) ==
    <<"out", "my_experiment", "exported_models", "exported_last.pt">>

EmbedCheckpoint == <<"out", "my_experiment", "checkpoints", "last.ckpt">>

NoArtifact == [filenames |-> <<>>, embeddings |-> <<>>, present |-> FALSE]

\* File system helpers.
PathsOf(files) == {f.path : f \in files}
Under(files, dir) ==
    {f \in files : Len(f.path) > Len(dir) /\ SubSeq(f.path, 1, Len(dir)) = dir}
WriteFile(files, path, run) ==
    {f \in files : f.path # path} \cup {[path |-> path, run |-> run]}

\* lightly_train.train up to the point it stops: "start" (it raised before
\* writing), "checkpoint" (it raised after a checkpoint, before the export),
\* "export" (it returned).
TrainWrites(files, out, run, upto) ==
    IF upto = "start" THEN files
    ELSE LET ckpt == LastCheckpoint(out, PathsOf(files))
             a == WriteFile(files, EpochCheckpoint(out), run)
             b == WriteFile(a, ckpt, run)
         IN  IF upto = "checkpoint" THEN b
             ELSE WriteFile(b, ExportedLast(out), run)

\* The orderings of a finite set: its elements as a sequence, each once.
Orderings(S) ==
    {q \in [1..Cardinality(S) -> S] : \A i, j \in DOMAIN q : i # j => q[i] # q[j]}

\* lightly_train.embed: one embedding per image of the data directory, in the
\* order of the filenames.
EmbedArtifactDropsLast(order, run) ==
    [filenames |-> order,
     embeddings |-> [i \in 1..(Len(order) - 1) |-> [of |-> order[i], ckpt |-> run]],
     present |-> TRUE]

EmbedArtifact(order, run) ==
    [filenames |-> order,
     embeddings |-> [i \in DOMAIN order |-> [of |-> order[i], ckpt |-> run]],
     present |-> TRUE]

\* What fine-tuning does to the dataset directory: the Ultralytics data
\* loader leaves a label cache (labels/train.cache, labels/val.cache) next to
\* the labels; the quick-start loop and RF-DETR only read.
LabelCache == [kind |-> "labels.cache", id |-> 0]

FinetuneDataWrites(n, dir) == dir \cup {[kind |-> "model.pt", id |-> 0]}

FinetuneData(n, dir) ==
    IF n = "yolov12" THEN dir \cup {LabelCache} ELSE dir

\* A notebook stops at the first cell that raises: nothing catches it.
HaltedNever == FALSE

Halted == \E s \in StepNames : status[s] = "raised"

Running == {s \in StepNames : status[s] = "running"}

\* Cells run top to bottom, each once its predecessor's call is over.
Position(n, s) == CHOOSE i \in DOMAIN StepsOf(n) : StepsOf(n)[i] = s

CanBeginConcurrent(s) ==
    /\ \E i \in DOMAIN StepsOf(nb) : StepsOf(nb)[i] = s
    /\ status[s] = "idle"
    /\ ~Halted
    /\ \A i \in 1..(Position(nb, s) - 1) : status[StepsOf(nb)[i]] # "idle"

CanBegin(s) ==
    /\ \E i \in DOMAIN StepsOf(nb) : StepsOf(nb)[i] = s
    /\ status[s] = "idle"
    /\ ~Halted
    /\ \A i \in 1..(Position(nb, s) - 1) :
          status[StepsOf(nb)[i]] \in {"returned", "raised"}

Finished ==
    \/ Halted
    \/ \A i \in DOMAIN StepsOf(nb) : status[StepsOf(nb)[i]] = "returned"

NBInit ==
    /\ nb \in Notebooks
    /\ \E k \in 1..MaxImages : remote = {Image(i) : i \in 1..k}
    /\ exec = 1
    /\ status = [s \in StepNames |-> "idle"]
    /\ invoked = [s \in StepNames |-> 0]
    /\ surfaced = ""
    /\ dataset = {}
    /\ fs = {}
    /\ runId = 0
    /\ completed = 0
    /\ emb = NoArtifact

NBIdle ==
    /\ nb = "quick_start"
    /\ remote = {}
    /\ exec = 1
    /\ status = [s \in StepNames |-> "idle"]
    /\ invoked = [s \in StepNames |-> 0]
    /\ surfaced = ""
    /\ dataset = {}
    /\ fs = {}
    /\ runId = 0
    /\ completed = 0
    /\ emb = NoArtifact

Return(s) == status' = [status EXCEPT ![s] = "returned"] /\ surfaced' = surfaced
Raise(s, error) == status' = [status EXCEPT ![s] = "raised"] /\ surfaced' = error

\* A cell's call starts.
Begin ==
    /\ \E s \in StepNames :
          /\ CanBegin(s)
          /\ status' = [status EXCEPT ![s] = "running"]
          /\ invoked' = [invoked EXCEPT ![s] = @ + 1]
          /\ runId' = IF s = "pretrain" THEN runId + 1 ELSE runId
    /\ UNCHANGED <<nb, remote, exec, surfaced, dataset, fs, completed, emb>>
    /\ UNCHANGED <<ciVars, ftVars>>

\* Dataset acquisition ends. The quick-start cell is two shell escapes
\* (!git clone, !rm -rf), which never raise; the download calls of the other
\* notebooks do.
AcquireEnd ==
    /\ status["acquire"] = "running"
    /\ \E ok \in BOOLEAN :
          IF nb = "quick_start"
          THEN /\ dataset' = RmGit(GitClone(dataset, remote, ok))
               /\ Return("acquire")
          ELSE IF ok
               THEN /\ dataset' = Download(dataset, remote, Extras(nb))
                    /\ Return("acquire")
               ELSE /\ dataset' = dataset
                    /\ Raise("acquire", "download_failed")
    /\ UNCHANGED <<nb, remote, exec, invoked, fs, runId, completed, emb>>
    /\ UNCHANGED <<ciVars, ftVars>>

\* lightly_train.train(out=..., data=..., model=..., overwrite=...) ends.
PretrainEnd ==
    /\ status["pretrain"] = "running"
    /\ IF Images(dataset) = {}
       THEN fs' = fs /\ completed' = completed /\ Raise("pretrain", "unreadable_data")
       ELSE IF Under(fs, TrainOut(nb)) # {} /\ ~TrainOverwrite(nb)
       THEN fs' = fs /\ completed' = completed /\ Raise("pretrain", "output_exists")
       ELSE \/ \E upto \in {"start", "checkpoint"} :
               \E error \in {"invalid_model", "out_of_memory"} :
                  /\ upto = "checkpoint" => error = "out_of_memory"
                  /\ fs' = TrainWrites(fs, TrainOut(nb), runId, upto)
                  /\ completed' = completed
                  /\ Raise("pretrain", error)
            \/ /\ fs' = TrainWrites(fs, TrainOut(nb), runId, "export")
               /\ completed' = completed + 1
               /\ Return("pretrain")
    /\ UNCHANGED <<nb, remote, exec, invoked, dataset, runId, emb>>
    /\ UNCHANGED <<ciVars, ftVars>>

\* Fine-tuning ends: the exported weights are read first.
FinetuneEnd ==
    /\ status["finetune"] = "running"
    /\ IF FinetuneWeights(nb) \notin PathsOf(fs)
       THEN dataset' = dataset /\ Raise("finetune", "file_not_found")
       ELSE \/ dataset' = FinetuneData(nb, dataset) /\ Return("finetune")
            \/ dataset' = FinetuneData(nb, dataset) /\ Raise("finetune", "training_failed")
    /\ UNCHANGED <<nb, remote, exec, invoked, fs, runId, completed, emb>>
    /\ UNCHANGED <<ciVars, ftVars>>

\* lightly_train.embed(out=..., checkpoint=..., data=...) ends: it wrote the
\* artifact, or raised and wrote nothing.
EmbedEnd ==
    /\ status["embed"] = "running"
    /\ IF EmbedCheckpoint \notin PathsOf(fs)
       THEN emb' = emb /\ Raise("embed", "file_not_found")
       ELSE IF Images(dataset) = {}
       THEN emb' = emb /\ Raise("embed", "unreadable_data")
       ELSE \/ \E order \in Orderings(Images(dataset)) :
               \E f \in fs :
                  /\ f.path = EmbedCheckpoint
                  /\ emb' = EmbedArtifact(order, f.run)
                  /\ Return("embed")
            \/ emb' = emb /\ Raise("embed", "embedding_failed")
    /\ UNCHANGED <<nb, remote, exec, invoked, dataset, fs, runId, completed>>
    /\ UNCHANGED <<ciVars, ftVars>>

\* torch.load("my_embeddings.pth") and the two prints end.
LoadEmbeddingsEnd ==
    /\ status["load_embeddings"] = "running"
    /\ IF emb.present
       THEN Return("load_embeddings")
       ELSE Raise("load_embeddings", "file_not_found")
    /\ UNCHANGED <<nb, remote, exec, invoked, dataset, fs, runId, completed, emb>>
    /\ UNCHANGED <<ciVars, ftVars>>

\* The notebook is executed again on a fresh kernel; the files stay.
Restart ==
    /\ Finished
    /\ Running = {}
    /\ exec < MaxExec
    /\ exec' = exec + 1
    /\ status' = [s \in StepNames |-> "idle"]
    /\ invoked' = [s \in StepNames |-> 0]
    /\ surfaced' = ""
    /\ UNCHANGED <<nb, remote, dataset, fs, runId, completed, emb>>
    /\ UNCHANGED <<ciVars, ftVars>>

NBNext ==
    \/ Begin
    \/ AcquireEnd
    \/ PretrainEnd
    \/ FinetuneEnd
    \/ EmbedEnd
    \/ LoadEmbeddingsEnd
    \/ Restart

(***************************************************************************)
(* The quick-start fine-tuning cell                                        *)
(***************************************************************************)

\* Bounds of the model.
MaxN == 33
MaxClasses == 2

\* DataLoader(dataset, batch_size=16, shuffle=True, drop_last=True)
BatchSize == 16
\* num_epochs = 10
NumEpochs == 10
\* models.resnet18(): the classification layer has 1000 outputs, and so has
\* the exported state dict.
ResNetClasses == 1000

\* len(dataloader) with drop_last=True: the full batches only.
NumBatches(n) == n \div BatchSize

\* The statements of the cell before the batch loop, in order.
FinetuneCellOptimizerFirst ==
    <<"dataset", "dataloader", "model", "load_state_dict", "to", "criterion",
      "optimizer", "fc", "for_epoch">>

FinetuneCell ==
    <<"dataset", "dataloader", "model", "load_state_dict", "fc", "to",
      "criterion", "optimizer", "for_epoch">>

After(stmt) ==
    FinetuneCell[(CHOOSE i \in DOMAIN FinetuneCell : FinetuneCell[i] = stmt) + 1]

LoopStmts ==
    {"for_epoch", "for_batch", "zero_grad", "forward", "loss", "backward",
     "step", "set_postfix", "print"}

NoModel == [id |-> 0, out |-> 0, weights |-> "none"]
NoStep == [grads |-> 0, fcUpdated |-> FALSE]

FTInit ==
    /\ ftN \in 1..MaxN
    /\ ftClasses \in 1..MaxClasses
    /\ ftClasses <= ftN
    /\ ftpc = FinetuneCell[1]
    /\ ftError = ""
    /\ batches = 0
    /\ backbone = "none"
    /\ fc = NoModel
    /\ optFc = 0
    /\ epoch = 0
    /\ batch = 0
    /\ lossEpoch = 0
    /\ grads = 0
    /\ optSteps = 0
    /\ lastStep = NoStep

FTIdle ==
    /\ ftN = 0
    /\ ftClasses = 0
    /\ ftpc = "idle"
    /\ ftError = ""
    /\ batches = 0
    /\ backbone = "none"
    /\ fc = NoModel
    /\ optFc = 0
    /\ epoch = 0
    /\ batch = 0
    /\ lossEpoch = 0
    /\ grads = 0
    /\ optSteps = 0
    /\ lastStep = NoStep

FTRaise(error) == ftpc' = "raised" /\ ftError' = error

\* dataset = datasets.ImageFolder(root="my_data_dir", transform=transform)
StmtDataset ==
    /\ ftpc = "dataset"
    /\ ftpc' = After("dataset")
    /\ UNCHANGED <<ftN, ftClasses, ftError, batches, backbone, fc, optFc, epoch,
                   batch, lossEpoch, grads, optSteps, lastStep>>
    /\ UNCHANGED <<ciVars, nbVars>>

\* dataloader = DataLoader(dataset, batch_size=16, shuffle=True, drop_last=True)
StmtDataLoader ==
    /\ ftpc = "dataloader"
    /\ batches' = NumBatches(ftN)
    /\ ftpc' = After("dataloader")
    /\ UNCHANGED <<ftN, ftClasses, ftError, backbone, fc, optFc, epoch,
                   batch, lossEpoch, grads, optSteps, lastStep>>
    /\ UNCHANGED <<ciVars, nbVars>>

\* model = models.resnet18()
StmtModel ==
    /\ ftpc = "model"
    /\ backbone' = "init"
    /\ fc' = [id |-> 1, out |-> ResNetClasses, weights |-> "init"]
    /\ ftpc' = After("model")
    /\ UNCHANGED <<ftN, ftClasses, ftError, batches, optFc, epoch,
                   batch, lossEpoch, grads, optSteps, lastStep>>
    /\ UNCHANGED <<ciVars, nbVars>>

\* model.load_state_dict(torch.load(".../exported_last.pt", weights_only=True))
\* The load is strict: the shapes must be those of the state dict.
StmtLoadStateDict ==
    /\ ftpc = "load_state_dict"
    /\ IF fc.out = ResNetClasses
       THEN /\ backbone' = "pretrained"
            /\ fc' = [fc EXCEPT !.weights = "pretrained"]
            /\ ftpc' = After("load_state_dict")
            /\ ftError' = ftError
       ELSE /\ FTRaise("size_mismatch")
            /\ UNCHANGED <<backbone, fc>>
    /\ UNCHANGED <<ftN, ftClasses, batches, optFc, epoch,
                   batch, lossEpoch, grads, optSteps, lastStep>>
    /\ UNCHANGED <<ciVars, nbVars>>

\* model.fc = nn.Linear(model.fc.in_features, len(dataset.classes))
StmtFc ==
    /\ ftpc = "fc"
    /\ fc' = [id |-> fc.id + 1, out |-> ftClasses, weights |-> "init"]
    /\ ftpc' = After("fc")
    /\ UNCHANGED <<ftN, ftClasses, ftError, batches, backbone, optFc, epoch,
                   batch, lossEpoch, grads, optSteps, lastStep>>
    /\ UNCHANGED <<ciVars, nbVars>>

\* model.to(device) moves the parameters in place; criterion = nn.CrossEntropyLoss()
StmtToCriterion ==
    /\ ftpc \in {"to", "criterion"}
    /\ ftpc' = After(ftpc)
    /\ UNCHANGED <<ftN, ftClasses, ftError, batches, backbone, fc, optFc, epoch,
                   batch, lossEpoch, grads, optSteps, lastStep>>
    /\ UNCHANGED <<ciVars, nbVars>>

\* optimizer = optim.Adam(model.parameters(), lr=0.001): the optimizer holds
\* the parameters the model has now.
StmtOptimizer ==
    /\ ftpc = "optimizer"
    /\ optFc' = fc.id
    /\ ftpc' = After("optimizer")
    /\ UNCHANGED <<ftN, ftClasses, ftError, batches, backbone, fc, epoch,
                   batch, lossEpoch, grads, optSteps, lastStep>>
    /\ UNCHANGED <<ciVars, nbVars>>

\* for epoch in range(num_epochs): running_loss = 0.0; progress_bar = ...
ForEpoch ==
    /\ ftpc = "for_epoch"
    /\ IF epoch < NumEpochs
       THEN epoch' = epoch + 1 /\ batch' = 0 /\ ftpc' = "for_batch"
       ELSE epoch' = epoch /\ batch' = batch /\ ftpc' = "done"
    /\ UNCHANGED <<ftN, ftClasses, ftError, batches, backbone, fc, optFc,
                   lossEpoch, grads, optSteps, lastStep>>
    /\ UNCHANGED <<ciVars, nbVars>>

\* for inputs, labels in progress_bar:
ForBatch ==
    /\ ftpc = "for_batch"
    /\ IF batch < batches
       THEN batch' = batch + 1 /\ ftpc' = "zero_grad"
       ELSE batch' = batch /\ ftpc' = "print"
    /\ UNCHANGED <<ftN, ftClasses, ftError, batches, backbone, fc, optFc, epoch,
                   lossEpoch, grads, optSteps, lastStep>>
    /\ UNCHANGED <<ciVars, nbVars>>

\* optimizer.zero_grad()
ZeroGradKeepsGrads ==
    /\ ftpc = "zero_grad"
    /\ grads' = grads
    /\ ftpc' = "forward"
    /\ UNCHANGED <<ftN, ftClasses, ftError, batches, backbone, fc, optFc, epoch,
                   batch, lossEpoch, optSteps, lastStep>>
    /\ UNCHANGED <<ciVars, nbVars>>

ZeroGrad ==
    /\ ftpc = "zero_grad"
    /\ grads' = 0
    /\ ftpc' = "forward"
    /\ UNCHANGED <<ftN, ftClasses, ftError, batches, backbone, fc, optFc, epoch,
                   batch, lossEpoch, optSteps, lastStep>>
    /\ UNCHANGED <<ciVars, nbVars>>

\* outputs = model(inputs.to(device))
Forward ==
    /\ ftpc = "forward"
    /\ ftpc' = "loss"
    /\ UNCHANGED <<ftN, ftClasses, ftError, batches, backbone, fc, optFc, epoch,
                   batch, lossEpoch, grads, optSteps, lastStep>>
    /\ UNCHANGED <<ciVars, nbVars>>

\* loss = criterion(outputs, labels.to(device)): a label must be below the
\* number of outputs.
Loss ==
    /\ ftpc = "loss"
    /\ IF ftClasses <= fc.out
       THEN lossEpoch' = epoch /\ ftpc' = "backward" /\ ftError' = ftError
       ELSE lossEpoch' = lossEpoch /\ FTRaise("target_out_of_bounds")
    /\ UNCHANGED <<ftN, ftClasses, batches, backbone, fc, optFc, epoch,
                   batch, grads, optSteps, lastStep>>
    /\ UNCHANGED <<ciVars, nbVars>>

\* loss.backward() adds this batch's gradients to the .grad fields
Backward ==
    /\ ftpc = "backward"
    /\ grads' = grads + 1
    /\ ftpc' = "step"
    /\ UNCHANGED <<ftN, ftClasses, ftError, batches, backbone, fc, optFc, epoch,
                   batch, lossEpoch, optSteps, lastStep>>
    /\ UNCHANGED <<ciVars, nbVars>>

\* optimizer.step() updates the parameters the optimizer holds
Step ==
    /\ ftpc = "step"
    /\ optSteps' = optSteps + 1
    /\ lastStep' = [grads |-> grads, fcUpdated |-> optFc = fc.id]
    /\ fc' = IF optFc = fc.id THEN [fc EXCEPT !.weights = "finetuned"] ELSE fc
    /\ backbone' = "finetuned"
    /\ ftpc' = "set_postfix"
    /\ UNCHANGED <<ftN, ftClasses, ftError, batches, optFc, epoch,
                   batch, lossEpoch, grads>>
    /\ UNCHANGED <<ciVars, nbVars>>

\* progress_bar.set_postfix(loss=f"{loss.item():.4f}")
SetPostfix ==
    /\ ftpc = "set_postfix"
    /\ ftpc' = "for_batch"
    /\ UNCHANGED <<ftN, ftClasses, ftError, batches, backbone, fc, optFc, epoch,
                   batch, lossEpoch, grads, optSteps, lastStep>>
    /\ UNCHANGED <<ciVars, nbVars>>

\* print(f"Epoch [{epoch + 1}/{num_epochs}], Loss: {loss.item():.4f}")
\* reads loss: a name never assigned raises NameError.
PrintEpoch ==
    /\ ftpc = "print"
    /\ IF lossEpoch = 0
       THEN FTRaise("NameError")
       ELSE ftpc' = "for_epoch" /\ ftError' = ftError
    /\ UNCHANGED <<ftN, ftClasses, batches, backbone, fc, optFc, epoch,
                   batch, lossEpoch, grads, optSteps, lastStep>>
    /\ UNCHANGED <<ciVars, nbVars>>

FTNext ==
    \/ StmtDataset
    \/ StmtDataLoader
    \/ StmtModel
    \/ StmtLoadStateDict
    \/ StmtFc
    \/ StmtToCriterion
    \/ StmtOptimizer
    \/ ForEpoch
    \/ ForBatch
    \/ ZeroGrad
    \/ Forward
    \/ Loss
    \/ Backward
    \/ Step
    \/ SetPostfix
    \/ PrintEpoch

(***************************************************************************)
(* Specifications                                                          *)
(***************************************************************************)

InitCI == CIInit /\ NBIdle /\ FTIdle
SpecCI == InitCI /\ [][CINext]_vars

InitNB == NBInit /\ CIIdle /\ FTIdle
SpecNB == InitNB /\ [][NBNext]_vars

InitFT == FTInit /\ CIIdle /\ NBIdle
SpecFT == InitFT /\ [][FTNext]_vars

(***************************************************************************)
(* Properties                                                              *)
(***************************************************************************)

TestDocStarted == testdoc \in {"running", "success", "failure"}

\* C1: test-documentation never starts before detect-code-changes has
\* finished; it runs only when detect-code-changes succeeded and published
\* run-tests == 'true'; for every other outcome (output 'false', output
\* missing, job failed) it is skipped and none of its steps run.
C1_TestDocGated ==
    /\ testdoc # "waiting" => detect \in {"success", "failure"}
    /\ (TestDocStarted \/ testdocSteps # <<>>) =>
          detect = "success" /\ runTestsOut = "true"
    /\ (testdoc # "waiting" /\ ~(detect = "success" /\ runTestsOut = "true")) =>
          testdoc = "skipped" /\ testdocSteps = <<>>

C1_Witness ==
    /\ testdoc = "success"
    /\ testdocSteps = TestDocStepNames
    /\ runTestsOut = "true"

\* A documentation-relevant file: outside docker/ and outside .github/, or
\* the workflow file itself.
DocRelevant(f) ==
    \/ Head(f) # "docker" /\ Head(f) # ".github"
    \/ f = WorkflowFile

\* C2: once detect-code-changes has published run-tests, it is 'true'
\* exactly when some changed file is documentation-relevant; a change set
\* all under docker/ or .github/ (other than the workflow file) yields
\* 'false' and test-documentation is skipped.
C2_RunTestsIffDocRelevant ==
    /\ detect = "success" =>
          (runTestsOut = "true" <=> \E f \in changed : DocRelevant(f))
    /\ (TestDocStarted => \E f \in changed : DocRelevant(f))

\* C3: whenever the embeddings artifact exists, its embeddings array has as
\* many rows as there are filenames, there is exactly one row per image of
\* the data directory, and row i is the embedding of filename i.
C3_EmbeddingsAligned ==
    emb.present =>
        /\ Len(emb.embeddings) = Len(emb.filenames)
        /\ Len(emb.filenames) = Cardinality(Images(dataset))
        /\ {emb.filenames[i] : i \in DOMAIN emb.filenames} = Images(dataset)
        /\ \A i \in DOMAIN emb.filenames : emb.embeddings[i].of = emb.filenames[i]

C3_Witness ==
    /\ emb.present
    /\ Len(emb.filenames) = 2
    /\ status["load_embeddings"] = "returned"

ExperimentDir == <<"out", "my_experiment">>

FilesAt(path) == {f \in fs : f.path = path}

\* C4: whenever the most recent training invocation has completed (also
\* after earlier runs into the same directory), out/my_experiment holds
\* exactly one checkpoints/last.ckpt and exactly one
\* exported_models/exported_last.pt, both written by that invocation.
C4_OneLastPerRun ==
    status["pretrain"] = "returned" =>
        /\ Cardinality(FilesAt(ExperimentDir \o <<"checkpoints", "last.ckpt">>)) = 1
        /\ Cardinality(FilesAt(ExperimentDir \o
                               <<"exported_models", "exported_last.pt">>)) = 1
        /\ \A f \in FilesAt(ExperimentDir \o <<"checkpoints", "last.ckpt">>) :
              f.run = runId
        /\ \A f \in FilesAt(ExperimentDir \o
                            <<"exported_models", "exported_last.pt">>) :
              f.run = runId

\* A second completed training run into the directory has returned.
C4_Witness ==
    /\ status["pretrain"] = "returned"
    /\ completed = 2
    /\ runId = 2

\* What each consumer reads.
ReadPath(s) == IF s = "embed" THEN EmbedCheckpoint ELSE FinetuneWeights(nb)

\* C5: pretraining starts only after dataset acquisition, fine-tuning and
\* embedding only after the pretraining call has returned; the path each of
\* them reads is one the pretraining call with out="out/my_experiment"
\* produced, and the file is there when it is read.
C5_ConsumersReadProduced ==
    /\ status["pretrain"] # "idle" => status["acquire"] = "returned"
    /\ \A s \in {"finetune", "embed"} :
          status[s] # "idle" =>
             /\ status["pretrain"] = "returned"
             /\ ReadPath(s) \in {ExperimentDir \o <<"checkpoints", "last.ckpt">>,
                                 ExperimentDir \o
                                    <<"exported_models", "exported_last.pt">>}
             /\ \E f \in fs : f.path = ReadPath(s) /\ f.run = runId

C5_Witness ==
    /\ status["finetune"] = "returned"
    /\ status["embed"] = "returned"

\* C6 as stated: once the dataset directory has been acquired, no step
\* changes the set of files under it.
C6_DatasetNeverModified == [][dataset # {} => dataset' = dataset]_vars

\* C6 as amended: once acquired, the dataset directory is left unchanged by
\* pretraining, embedding and the quick-start and RF-DETR fine-tuning; the
\* YOLOv12 fine-tuning only adds the label cache.
C6_DatasetFrame ==
    [][dataset # {} =>
          \/ dataset' = dataset
          \/ /\ nb = "yolov12"
             /\ status["finetune"] = "running"
             /\ dataset' = dataset \cup {LabelCache}]_vars

C6_Witness ==
    /\ nb = "quick_start"
    /\ status["finetune"] = "returned"
    /\ status["embed"] = "returned"
    /\ dataset = remote

LaterSteps == {"finetune", "embed", "load_embeddings"}

\* C7: a failing training invocation surfaces its error and stops the
\* execution: training was invoked once, no later step was invoked, and no
\* step is invoked more than once in an execution.
C7_TrainFailureStops ==
    /\ \A s \in StepNames : invoked[s] <= 1
    /\ status["pretrain"] = "raised" =>
          /\ surfaced \in {"invalid_model", "unreadable_data", "out_of_memory",
                           "output_exists"}
          /\ invoked["pretrain"] = 1
          /\ \A s \in LaterSteps : status[s] = "idle" /\ invoked[s] = 0

C7_Witness ==
    /\ status["pretrain"] = "raised"
    /\ surfaced = "out_of_memory"
    /\ nb = "rfdetr"

\* C8: at most one step is in progress at any moment, and a step has
\* started only if every step before it has returned.
C8_Sequential ==
    /\ Cardinality(Running) <= 1
    /\ \A i \in DOMAIN StepsOf(nb) :
          status[StepsOf(nb)[i]] # "idle" =>
             \A j \in 1..(i - 1) : status[StepsOf(nb)[j]] = "returned"

C8_Witness ==
    /\ status["embed"] = "running"
    /\ status["finetune"] = "returned"

\* C9: the weights are loaded into the unmodified ResNet-18, then the
\* classification layer is replaced, then the optimizer is created; in the
\* training loop the model has len(dataset.classes) outputs, the optimizer
\* holds the new layer's parameters and every optimizer step updates them.
C9_HeadReplacedBeforeOptimizer ==
    /\ optFc # 0 => fc.id = 2
    /\ fc.id = 2 => backbone # "init"
    /\ ftpc \in LoopStmts \cup {"done"} =>
          /\ fc.out = ftClasses
          /\ optFc = fc.id
          /\ backbone \in {"pretrained", "finetuned"}
    /\ optSteps > 0 => lastStep.fcUpdated

C9_Witness ==
    /\ ftpc = "set_postfix"
    /\ optSteps = 1
    /\ fc.out = ftClasses
    /\ fc.weights = "finetuned"

\* C10: the cell never raises, and whenever the epoch summary is about to
\* be printed, loss was assigned by a batch of that epoch.
C10_LossAssignedAtPrint ==
    /\ ftError = ""
    /\ ftpc = "print" => lossEpoch = epoch

\* C11: the loop ends after exactly num_epochs = 10 epochs; every epoch
\* visits each of the floor(N/16) full batches once, with one optimizer step
\* per batch, 10 * floor(N/16) optimizer steps in all.
C11_TenEpochsOfFullBatches ==
    /\ ftpc \in {"done", "raised"} =>
          /\ ftpc = "done"
          /\ epoch = NumEpochs
          /\ optSteps = NumEpochs * (ftN \div BatchSize)
    /\ ftpc = "print" => batch = ftN \div BatchSize
    /\ ftpc \in {"for_batch", "print"} =>
          optSteps = (epoch - 1) * (ftN \div BatchSize) + batch

\* C12: every batch runs zero_grad, forward, loss, backward, step in that
\* order: the gradients are clear from zero_grad until the backward pass,
\* loss belongs to the current epoch when it is back-propagated, and every
\* optimizer step applies the gradients of exactly one batch.
C12_OneBatchPerStep ==
    /\ ftpc \in {"forward", "loss", "backward"} => grads = 0
    /\ ftpc \in {"backward", "step", "set_postfix"} => lossEpoch = epoch
    /\ ftpc = "step" => grads = 1
    /\ optSteps > 0 => lastStep.grads = 1
    /\ ftpc \in {"zero_grad", "forward", "loss", "backward", "step"} =>
          optSteps = (epoch - 1) * batches + batch - 1

\* The second batch of a later epoch has been applied.
C12_Witness ==
    /\ ftpc = "set_postfix"
    /\ epoch = 2
    /\ batch = 2
    /\ lastStep.grads = 1

====
